---- MODULE Spec2Model ----
(***************************************************************************)
(* Model of the disruption controller of xk6-disruptor:                    *)
(*   pkg/disruptors/contoller.go  agentController (injection, fan-out)     *)
(*   pkg/disruptors/pod.go        podDisruptor (construction, port         *)
(*                                validation, fault injection)             *)
(*   pkg/disruptors/cmd_builders.go  the agent's argument vector           *)
(*   api (scripting layer)        constructor argument validation          *)
(*   pkg/agent/protocol/grpc/handler.go  the transparent gRPC proxy        *)
(* The cluster is a set of pods in the default namespace.  Every goroutine *)
(* of a fan-out is a process of the model; one step per gateway call.      *)
(***************************************************************************)
EXTENDS Integers, Sequences, FiniteSets, TLC

VARIABLES
    pods,          \* the cluster: pod name -> [exists, containers, eph]
    ctxCancelled,  \* the context given to NewPodDisruptor has been cancelled
    cpc,           \* NewPodDisruptor: "idle", "injecting", "returned"
    selector,      \* the selector given to NewPodDisruptor ([Namespace])
    ctl,           \* the agentController: [namespace, targets]
    snapshot,      \* what GetTargets returned to the constructor in progress
    itask,         \* injection goroutines: index -> [pc, fetched, attach]
    ierrors,       \* InjectDisruptorAgent's errors channel
    isent,         \* every error sent on that channel, in order of sending
    cret,          \* the error NewPodDisruptor returned
    disruptor,     \* TRUE iff NewPodDisruptor returned a handle
    fpc,           \* caller -> "idle", "fanout", "rejected", "returned"
    call,          \* caller -> [proto, port, cmd] of its fault call
    etask,         \* caller -> Exec goroutines: index -> [pc, reqs]
    eerrors,       \* caller -> ExecCommand's errors channel
    esent,         \* caller -> every error sent on that channel, in order
    fret,          \* caller -> the error the fault call returned
    targetsResult, \* what the last Targets() call returned
    nConstruct,    \* NewPodDisruptor calls so far
    nFault,        \* fault calls so far on the current handle
    nEnv,          \* changes of the cluster and cancellations so far
    built,         \* a command builder's call: [pc, proto, fault, duration, options, argv]
    api,           \* the scripting layer's constructor call: [pc, ctor, args, err]
    hpc,           \* streamHandler: "idle", "select", "returned"
    hiter,         \* streamHandler's loop counter i
    hret,          \* what streamHandler returned: [kind, err, ended]
    trailers,      \* SetTrailer calls on the caller's stream
    closeSends,    \* CloseSend calls on the backend stream
    clientCancelled, \* clientCancel has been called
    serverDone,    \* the caller's stream is over (its handler returned)
    s2cErrChan,    \* the channel forwardServerToClient returned
    c2sErrChan,    \* the channel forwardClientToServer returned
    s2c,           \* caller-to-backend goroutine: [pc]
    c2s,           \* backend-to-caller goroutine: [pc, i]
    s2cSends,      \* values the caller-to-backend goroutine has sent
    c2sSends,      \* values the backend-to-caller goroutine has sent
    toBackend,     \* messages sent on the backend stream, in order
    toCaller,      \* headers (0) and messages sent to the caller, in order
    fromCaller,    \* messages received from the caller
    fromBackend,   \* messages received from the backend
    backendEnd     \* the error that ended the backend stream's receives

proxyVars == <<hpc, hiter, hret, trailers, closeSends, clientCancelled,
               serverDone, s2cErrChan, c2sErrChan, s2c, c2s, s2cSends,
               c2sSends, toBackend, toCaller, fromCaller, fromBackend,
               backendEnd>>

vars == <<pods, ctxCancelled, cpc, selector, ctl, snapshot, itask, ierrors,
          isent, cret, disruptor, fpc, call, etask, eerrors, esent, fret,
          targetsResult, nConstruct, nFault, nEnv, built, api, proxyVars>>

\* ------------------------------------------------------------------ bounds
MaxConstructs == 2
MaxFaultCalls == 2
MaxEnv == 1

\* ------------------------------------------------------------- the cluster
Pods == {"p1", "p2"}
Callers == {1, 2}
\* The agent attached under the name of a debugging container.
AgentNameDebugger == "debugger-agent"
AgentName == "xk6-agent"
NamespaceDefault == "default"
Namespaces == {"", NamespaceDefault}

Nil == [kind |-> "nil", target |-> "-"]
Err(k, t) == [kind |-> k, target |-> t]
NoTargets == <<"-">>
NotFetched == <<"-">>
FetchError == <<"error">>

Range(s) == {s[i] : i \in 1..Len(s)}

\* Container port lists of the pods of the cluster: one container declaring
\* port 80 (the pod the unit tests build), or two containers of which the
\* second declares 8080.
PortsHTTP == <<<<80>>>>
PortsOther == <<<<9090>>, <<8080>>>>

\* A pod as the cluster holds it.  eph: the names of its ephemeral containers.
Pod(cs, e) == [exists |-> TRUE, containers |-> cs, eph |-> e]

\* --------------------------------------------------------- command builders
\* Error rates are counted in millionths; FormatRate is fmt.Sprint of the
\* float64 (shortest representation that round-trips).
FormatRate(r) ==
    CASE r = 0 -> "0"
      [] r = 1 -> "1e-06"
      [] r = 100000 -> "0.1"
      [] r = 1000000 -> "1"
      [] OTHER -> ToString(r) \o "e-06"

FormatUint(n) == ToString(n)

NoFault == [Port |-> 0, AverageDelay |-> 0, DelayVariation |-> 0,
            ErrorRate |-> 0, ErrorCode |-> 0, ErrorBody |-> "", Exclude |-> ""]
NoOptions == [ProxyPort |-> 0, Iface |-> ""]

\* if cond { cmd = append(cmd, flag, value) }
Flag(cond, flag, value) == IF cond THEN <<flag, value>> ELSE <<>>

\* buildHTTPFaultCmd appending the rate before the code.
buildHTTPFaultCmdRateFirst(fault, duration, options) ==
    <<"xk6-disruptor-agent", "http", "-d", FormatUint(duration) \o "s">>
    \o (IF fault.AverageDelay > 0
          THEN <<"-a", FormatUint(fault.AverageDelay),
                 "-v", FormatUint(fault.DelayVariation)>>
          ELSE <<>>)
    \o (IF fault.ErrorRate > 0
          THEN <<"-r", FormatRate(fault.ErrorRate),
                 "-e", FormatUint(fault.ErrorCode)>>
               \o Flag(fault.ErrorBody # "", "-b", fault.ErrorBody)
          ELSE <<>>)
    \o Flag(fault.Port # 0, "-t", FormatUint(fault.Port))
    \o Flag(fault.Exclude # "", "-x", fault.Exclude)
    \o Flag(options.ProxyPort # 0, "-p", FormatUint(options.ProxyPort))
    \o Flag(options.Iface # "", "-i", options.Iface)

\* buildHTTPFaultCmd appending -v only when the variation is set.
buildHTTPFaultCmdVariationIfSet(fault, duration, options) ==
    <<"xk6-disruptor-agent", "http", "-d", FormatUint(duration) \o "s">>
    \o (IF fault.AverageDelay > 0
          THEN <<"-a", FormatUint(fault.AverageDelay)>>
               \o Flag(fault.DelayVariation # 0, "-v", FormatUint(fault.DelayVariation))
          ELSE <<>>)
    \o (IF fault.ErrorRate > 0
          THEN <<"-e", FormatUint(fault.ErrorCode),
                 "-r", FormatRate(fault.ErrorRate)>>
               \o Flag(fault.ErrorBody # "", "-b", fault.ErrorBody)
          ELSE <<>>)
    \o Flag(fault.Port # 0, "-t", FormatUint(fault.Port))
    \o Flag(fault.Exclude # "", "-x", fault.Exclude)
    \o Flag(options.ProxyPort # 0, "-p", FormatUint(options.ProxyPort))
    \o Flag(options.Iface # "", "-i", options.Iface)

\* buildHTTPFaultCmd appending -e only when the code is set.
buildHTTPFaultCmdCodeIfSet(fault, duration, options) ==
    <<"xk6-disruptor-agent", "http", "-d", FormatUint(duration) \o "s">>
    \o (IF fault.AverageDelay > 0
          THEN <<"-a", FormatUint(fault.AverageDelay),
                 "-v", FormatUint(fault.DelayVariation)>>
          ELSE <<>>)
    \o (IF fault.ErrorRate > 0
          THEN Flag(fault.ErrorCode # 0, "-e", FormatUint(fault.ErrorCode))
               \o <<"-r", FormatRate(fault.ErrorRate)>>
               \o Flag(fault.ErrorBody # "", "-b", fault.ErrorBody)
          ELSE <<>>)
    \o Flag(fault.Port # 0, "-t", FormatUint(fault.Port))
    \o Flag(fault.Exclude # "", "-x", fault.Exclude)
    \o Flag(options.ProxyPort # 0, "-p", FormatUint(options.ProxyPort))
    \o Flag(options.Iface # "", "-i", options.Iface)

\* buildGrpcFaultCmd appending the status message outside the error block.
buildGrpcFaultCmdMessageAlways(fault, duration, options) ==
    <<"xk6-disruptor-agent", "grpc", "-d", FormatUint(duration) \o "s">>
    \o (IF fault.AverageDelay > 0
          THEN <<"-a", FormatUint(fault.AverageDelay),
                 "-v", FormatUint(fault.DelayVariation)>>
          ELSE <<>>)
    \o (IF fault.ErrorRate > 0
          THEN <<"-s", FormatUint(fault.ErrorCode),
                 "-r", FormatRate(fault.ErrorRate)>>
          ELSE <<>>)
    \o Flag(fault.ErrorBody # "", "-m", fault.ErrorBody)
    \o Flag(fault.Port # 0, "-t", FormatUint(fault.Port))
    \o Flag(fault.Exclude # "", "-x", fault.Exclude)
    \o Flag(options.ProxyPort # 0, "-p", FormatUint(options.ProxyPort))
    \o Flag(options.Iface # "", "-i", options.Iface)

\* buildGrpcFaultCmd appending the options before the port and the exclusions.
buildGrpcFaultCmdOptionsFirst(fault, duration, options) ==
    <<"xk6-disruptor-agent", "grpc", "-d", FormatUint(duration) \o "s">>
    \o (IF fault.AverageDelay > 0
          THEN <<"-a", FormatUint(fault.AverageDelay),
                 "-v", FormatUint(fault.DelayVariation)>>
          ELSE <<>>)
    \o (IF fault.ErrorRate > 0
          THEN <<"-s", FormatUint(fault.ErrorCode),
                 "-r", FormatRate(fault.ErrorRate)>>
               \o Flag(fault.ErrorBody # "", "-m", fault.ErrorBody)
          ELSE <<>>)
    \o Flag(options.ProxyPort # 0, "-p", FormatUint(options.ProxyPort))
    \o Flag(options.Iface # "", "-i", options.Iface)
    \o Flag(fault.Port # 0, "-t", FormatUint(fault.Port))
    \o Flag(fault.Exclude # "", "-x", fault.Exclude)

\* buildGrpcFaultCmd with the exclusions nested in the port's condition.
buildGrpcFaultCmdExcludeUnderPort(fault, duration, options) ==
    <<"xk6-disruptor-agent", "grpc", "-d", FormatUint(duration) \o "s">>
    \o (IF fault.AverageDelay > 0
          THEN <<"-a", FormatUint(fault.AverageDelay),
                 "-v", FormatUint(fault.DelayVariation)>>
          ELSE <<>>)
    \o (IF fault.ErrorRate > 0
          THEN <<"-s", FormatUint(fault.ErrorCode),
                 "-r", FormatRate(fault.ErrorRate)>>
               \o Flag(fault.ErrorBody # "", "-m", fault.ErrorBody)
          ELSE <<>>)
    \o (IF fault.Port # 0
          THEN <<"-t", FormatUint(fault.Port)>>
               \o Flag(fault.Exclude # "", "-x", fault.Exclude)
          ELSE <<>>)
    \o Flag(options.ProxyPort # 0, "-p", FormatUint(options.ProxyPort))
    \o Flag(options.Iface # "", "-i", options.Iface)

buildHTTPFaultCmd(fault, duration, options) ==
    <<"xk6-disruptor-agent", "http", "-d", FormatUint(duration) \o "s">>
    \o (IF fault.AverageDelay > 0
          THEN <<"-a", FormatUint(fault.AverageDelay),
                 "-v", FormatUint(fault.DelayVariation)>>
          ELSE <<>>)
    \o (IF fault.ErrorRate > 0
          THEN <<"-e", FormatUint(fault.ErrorCode),
                 "-r", FormatRate(fault.ErrorRate)>>
               \o (IF fault.ErrorBody # "" THEN <<"-b", fault.ErrorBody>> ELSE <<>>)
          ELSE <<>>)
    \o (IF fault.Port # 0 THEN <<"-t", FormatUint(fault.Port)>> ELSE <<>>)
    \o (IF fault.Exclude # "" THEN <<"-x", fault.Exclude>> ELSE <<>>)
    \o (IF options.ProxyPort # 0 THEN <<"-p", FormatUint(options.ProxyPort)>> ELSE <<>>)
    \o (IF options.Iface # "" THEN <<"-i", options.Iface>> ELSE <<>>)

\* GrpcFault.StatusCode and StatusMessage are held in ErrorCode and ErrorBody.
buildGrpcFaultCmd(fault, duration, options) ==
    <<"xk6-disruptor-agent", "grpc", "-d", FormatUint(duration) \o "s">>
    \o (IF fault.AverageDelay > 0
          THEN <<"-a", FormatUint(fault.AverageDelay),
                 "-v", FormatUint(fault.DelayVariation)>>
          ELSE <<>>)
    \o (IF fault.ErrorRate > 0
          THEN <<"-s", FormatUint(fault.ErrorCode),
                 "-r", FormatRate(fault.ErrorRate)>>
               \o (IF fault.ErrorBody # "" THEN <<"-m", fault.ErrorBody>> ELSE <<>>)
          ELSE <<>>)
    \o (IF fault.Port # 0 THEN <<"-t", FormatUint(fault.Port)>> ELSE <<>>)
    \o (IF fault.Exclude # "" THEN <<"-x", fault.Exclude>> ELSE <<>>)
    \o (IF options.ProxyPort # 0 THEN <<"-p", FormatUint(options.ProxyPort)>> ELSE <<>>)
    \o (IF options.Iface # "" THEN <<"-i", options.Iface>> ELSE <<>>)

\* The fault descriptors the fault calls of the model are made with.
HTTPFaults ==
    { [NoFault EXCEPT !.ErrorRate = 100000, !.ErrorCode = 500],
      [NoFault EXCEPT !.Port = 8080, !.AverageDelay = 100] }
GrpcFaults ==
    { [NoFault EXCEPT !.ErrorRate = 100000, !.ErrorCode = 14,
                      !.ErrorBody = "internal error"] }
Durations == {60}

\* The inputs the command builders are called with on their own: every
\* combination of a set and an unset value of each field.
FaultInputs ==
    [Port : {0, 8080}, AverageDelay : {0, 100}, DelayVariation : {0, 10},
     ErrorRate : {0, 1, 100000}, ErrorCode : {0, 14, 500},
     ErrorBody : {"", "internal error"},
     Exclude : {"", "/path1", "/path1,/path2"}]
OptionInputs == [ProxyPort : {0, 8000}, Iface : {"", "eth0"}]

NotBuilt == [pc |-> "none", proto |-> "-", fault |-> NoFault, duration |-> 0,
             options |-> NoOptions, argv |-> <<>>]
BuildInput(fault, duration, options) ==
    [pc |-> "input", proto |-> "-", fault |-> fault, duration |-> duration,
     options |-> options, argv |-> <<>>]

\* ------------------------------------------------------------- the gateway
\* CoreV1().Pods(ns).Get(ctx, name): a cancelled context and a failing
\* transport (flaky) fail the call; a pod is found under its own namespace
\* only (every pod of the model lives in the default namespace).
GetPod(ns, name, flaky) ==
    IF ctxCancelled THEN [err |-> Err("Canceled", name), pod |-> Pod(<<>>, <<>>)]
    ELSE IF flaky THEN [err |-> Err("Unavailable", name), pod |-> Pod(<<>>, <<>>)]
    ELSE IF ns # NamespaceDefault \/ ~pods[name].exists
      THEN [err |-> Err("NotFound", name), pod |-> Pod(<<>>, <<>>)]
    ELSE [err |-> Nil, pod |-> pods[name]]

\* selector.GetTargets: the names of the pods of the (defaulted) namespace,
\* in an order the cluster chooses.
DefaultNamespace(ns) == IF ns = "" THEN NamespaceDefault ELSE ns

Orderings(S) ==
    {s \in [1..Cardinality(S) -> S] : \A i, j \in 1..Len(s) : i # j => s[i] # s[j]}

GetTargets(ns) ==
    IF DefaultNamespace(ns) = NamespaceDefault
      THEN Orderings({p \in Pods : pods[p].exists})
      ELSE {<<>>}

\* NamespacedHelpers(ns).AttachEphemeralContainer(ctx, name, container, timeout):
\* idempotent by the container's name.  "ok": attached and running;
\* "timeout": attached, not running within the timeout; "fail": not attached.
AttachOutcomes(ns, name) ==
    IF ctxCancelled THEN {"fail"}
    ELSE IF ns # NamespaceDefault \/ ~pods[name].exists THEN {"fail"}
    ELSE {"ok", "timeout", "fail"}

Attached(pod, container) ==
    IF \E k \in 1..Len(pod.eph) : pod.eph[k] = container
      THEN pod
      ELSE [pod EXCEPT !.eph = Append(@, container)]

\* ------------------------------------------------------ agentController
\* HasAgent looking at the first ephemeral container only.
HasAgentFirst(eph) == Len(eph) > 0 /\ eph[1] = AgentName

\* HasAgent that never finds the agent.
HasAgentNever(eph) == FALSE

\* contoller.go:70-74: the agent has already been injected.
HasAgent(eph) == \E k \in 1..Len(eph) : eph[k] = AgentName

\* wg.Wait() returning as soon as one goroutine is done.
WaitAny(tasks) == tasks = <<>> \/ \E i \in 1..Len(tasks) : tasks[i].pc = "done"

\* wg.Wait() blocking until some goroutine has called wg.Done().
WaitSomeDone(tasks) == tasks # <<>> /\ \A i \in 1..Len(tasks) : tasks[i].pc = "done"

\* wg.Wait() that does not wait.
WaitNone(tasks) == TRUE

\* wg.Wait(): every goroutine of the fan-out has called wg.Done().
WaitDone(tasks) == \A i \in 1..Len(tasks) : tasks[i].pc = "done"

\* The coordinator taking the error sent last.
LastError(ch) == IF ch = <<>> THEN Nil ELSE ch[Len(ch)]

\* select { case err := <-errors: return err; default: return nil }
FirstError(ch) == IF ch = <<>> THEN Nil ELSE Head(ch)

\* The errors channel made with room for one error.
CanSendOne(ch, cap) == Len(ch) < 1

\* A send on the errors channel, made with capacity len(c.targets).
CanSend(ch, cap) == Len(ch) < cap

\* Targets() listing the cluster again.
TargetsListed(c) ==
    CHOOSE s \in Orderings({p \in Pods : pods[p].exists}) :
        \A i, j \in 1..Len(s) : i < j => s[i] = "p1"

Targets(c) == c.targets

NewAgentController(namespace, targets) ==
    [namespace |-> namespace, targets |-> targets]

Spawned(n) == [i \in 1..n |-> [pc |-> "spawned", fetched |-> NotFetched, attach |-> "none"]]

\* ------------------------------------------------------------ construction
\* if err != nil { return nil, err } after GetTargets and after injection.
ResolveFailed(err) == err # Nil
\* The constructor dropping the error of the injection.
InjectionErrorDropped(err) == FALSE
InjectionFailed(err) == err # Nil

\* NewPodDisruptor up to wg.Wait() in InjectDisruptorAgent: resolve the
\* targets, default the namespace, build the controller, spawn a goroutine
\* for every target.
NewPodDisruptor(ns, resolveErr, targets) ==
    /\ cpc # "injecting"
    /\ \A c \in Callers : fpc[c] # "fanout"
    /\ nConstruct < MaxConstructs
    /\ nConstruct' = nConstruct + 1
    /\ selector' = [Namespace |-> ns]
    /\ ctxCancelled' = FALSE
    /\ ierrors' = <<>>
    /\ isent' = <<>>
    /\ disruptor' = FALSE
    /\ fpc' = [c \in Callers |-> "idle"]
    /\ call' = [c \in Callers |-> [proto |-> "-", port |-> 0, cmd |-> <<>>]]
    /\ etask' = [c \in Callers |-> <<>>]
    /\ eerrors' = [c \in Callers |-> <<>>]
    /\ esent' = [c \in Callers |-> <<>>]
    /\ fret' = [c \in Callers |-> Nil]
    /\ targetsResult' = NoTargets
    /\ nFault' = 0
    /\ IF ResolveFailed(resolveErr)
         THEN /\ cpc' = "returned"
              /\ cret' = resolveErr
              /\ snapshot' = NoTargets
              /\ ctl' = NewAgentController("-", <<>>)
              /\ itask' = <<>>
         ELSE /\ cpc' = "injecting"
              /\ cret' = Nil
              /\ snapshot' = targets
              /\ ctl' = NewAgentController(DefaultNamespace(ns), targets)
              /\ itask' = Spawned(Len(targets))
    /\ UNCHANGED <<pods, nEnv>>

\* disruptors.NewPodDisruptor called by a Go caller (the tests).
Construct ==
    /\ \E ns \in Namespaces :
          \/ NewPodDisruptor(ns, Err("Unavailable", "-"), <<>>)
          \/ \E ts \in GetTargets(ns) : NewPodDisruptor(ns, Nil, ts)
    /\ UNCHANGED <<built, api, proxyVars>>

\* A constructor given a target list that names one pod twice (two
\* injection goroutines at work on the same pod).
ConstructDuplicate ==
    /\ \E p \in Pods :
          /\ pods[p].exists
          /\ NewPodDisruptor(NamespaceDefault, Nil, <<p, p>>)
    /\ UNCHANGED <<built, api, proxyVars>>

injVars == <<ctxCancelled, selector, ctl, snapshot, fpc, call, etask, eerrors,
             esent, fret, targetsResult, nConstruct, nFault, nEnv, built, api, proxyVars>>

\* The goroutine of target i, contoller.go:63-74: fetch the pod, report a
\* failed fetch, return if the agent is already there.
InjectGet(i) ==
    /\ cpc = "injecting"
    /\ i \in 1..Len(itask)
    /\ itask[i].pc = "spawned"
    /\ \E flaky \in BOOLEAN :
        LET r == GetPod(ctl.namespace, ctl.targets[i], flaky) IN
        IF r.err # Nil
          THEN /\ CanSend(ierrors, Len(ctl.targets))
               /\ ierrors' = Append(ierrors, r.err)
               /\ isent' = Append(isent, r.err)
               /\ itask' = [itask EXCEPT ![i] = [pc |-> "done", fetched |-> FetchError,
                                                 attach |-> "none"]]
          ELSE /\ itask' = [itask EXCEPT ![i] =
                               [pc |-> IF HasAgent(r.pod.eph) THEN "done" ELSE "attach",
                                fetched |-> r.pod.eph, attach |-> "none"]]
               /\ UNCHANGED <<ierrors, isent>>
    /\ UNCHANGED <<pods, cpc, cret, disruptor>>
    /\ UNCHANGED injVars

\* contoller.go:76-85: attach the agent container and report a failure.
InjectAttach(i) ==
    /\ cpc = "injecting"
    /\ i \in 1..Len(itask)
    /\ itask[i].pc = "attach"
    /\ \E o \in AttachOutcomes(ctl.namespace, ctl.targets[i]) :
        LET name == ctl.targets[i] IN
        /\ pods' = IF o = "fail" THEN pods
                   ELSE [pods EXCEPT ![name] = Attached(@, AgentName)]
        /\ itask' = [itask EXCEPT ![i].pc = "done", ![i].attach = o]
        /\ IF o = "ok"
             THEN UNCHANGED <<ierrors, isent>>
             ELSE /\ CanSend(ierrors, Len(ctl.targets))
                  /\ ierrors' = Append(ierrors, Err(IF o = "fail" THEN "AttachFailed" ELSE "Timeout", name))
                  /\ isent' = Append(isent, Err(IF o = "fail" THEN "AttachFailed" ELSE "Timeout", name))
    /\ UNCHANGED <<cpc, cret, disruptor>>
    /\ UNCHANGED injVars

\* InjectDisruptorAgent from wg.Wait() on, and NewPodDisruptor's return.
ConstructReturn ==
    /\ cpc = "injecting"
    /\ WaitDone(itask)
    /\ LET err == FirstError(ierrors) IN
        /\ cret' = err
        /\ disruptor' = ~InjectionFailed(err)
        /\ ierrors' = IF ierrors = <<>> THEN <<>> ELSE Tail(ierrors)
    /\ cpc' = "returned"
    /\ UNCHANGED <<pods, itask, isent>>
    /\ UNCHANGED injVars

\* ---------------------------------------------------------- fault calls
DefaultPort == 80

\* ListensTo looking at the first container only.
ListensToFirstContainer(containers, targetPort) ==
    /\ Len(containers) > 0
    /\ \E j \in 1..Len(containers[1]) : containers[1][j] = targetPort

\* pod.go:148-156: some container of the pod declares the port.
ListensTo(containers, targetPort) ==
    \E k \in 1..Len(containers) :
        \E j \in 1..Len(containers[k]) : containers[k][j] = targetPort

\* Validation with no default port: an unset port is looked for as it is.
EffectivePortAsGiven(targetPort) == targetPort

\* pod.go:133-135
EffectivePort(targetPort) == IF targetPort = 0 THEN DefaultPort ELSE targetPort

\* pod.go:143: the namespace validation fetches the targets under.
ValidationNamespace == selector.Namespace

\* validateTargetPort from target i on; the fetch of target failAt fails in
\* the transport.  The pods are fetched under the selector's namespace.
RECURSIVE validateFrom(_, _, _)
validateFrom(i, targetPort, failAt) ==
    IF i > Len(Targets(ctl)) THEN Nil
    ELSE LET target == Targets(ctl)[i]
             r == GetPod(ValidationNamespace, target, failAt = i)
         IN  IF r.err # Nil THEN r.err
             ELSE IF ~ListensTo(r.pod.containers, EffectivePort(targetPort))
               THEN Err("PortNotListening", target)
             ELSE validateFrom(i + 1, targetPort, failAt)

\* validateTargetPort refusing a handle that has no target.
validateTargetPortSomeTarget(targetPort, failAt) ==
    IF Targets(ctl) = <<>> THEN Err("PortNotListening", "-")
    ELSE validateFrom(1, targetPort, failAt)

validateTargetPort(targetPort, failAt) == validateFrom(1, targetPort, failAt)

\* if err != nil { return err } after validateTargetPort
ValidationFailed(err) == err # Nil

\* The goroutines sharing the loop variable: every request names the last target.
ExecRequestSharedLoopVar(namespace, pod, cmd) ==
    [namespace |-> namespace, pod |-> ctl.targets[Len(ctl.targets)],
     container |-> "xk6-agent", argv |-> cmd, stdin |-> <<>>]

\* The request of contoller.go:108-109.
ExecRequest(namespace, pod, cmd) ==
    [namespace |-> namespace, pod |-> pod, container |-> "xk6-agent",
     argv |-> cmd, stdin |-> <<>>]

ExecSpawned(n) == [i \in 1..n |-> [pc |-> "spawned", reqs |-> <<>>]]

\* The goroutines calling the handle are interchangeable: a new fault call is
\* made by the first of them that has no call in progress.
FreeCaller ==
    IF \A c \in Callers : fpc[c] = "fanout" THEN 0
    ELSE CHOOSE c \in Callers :
            /\ fpc[c] # "fanout"
            /\ \A d \in Callers : fpc[d] # "fanout" => c <= d

\* InjectHTTPFaults / InjectGrpcFaults up to wg.Wait() in ExecCommand.
InjectFaults(c, proto, port, cmd, failAt) ==
    /\ disruptor
    /\ c = FreeCaller
    /\ nFault < MaxFaultCalls
    /\ nFault' = nFault + 1
    /\ call' = [call EXCEPT ![c] = [proto |-> proto, port |-> port, cmd |-> cmd]]
    /\ eerrors' = [eerrors EXCEPT ![c] = <<>>]
    /\ esent' = [esent EXCEPT ![c] = <<>>]
    /\ LET err == validateTargetPort(port, failAt) IN
        IF ValidationFailed(err)
          THEN /\ fpc' = [fpc EXCEPT ![c] = "rejected"]
               /\ fret' = [fret EXCEPT ![c] = err]
               /\ etask' = [etask EXCEPT ![c] = <<>>]
          ELSE /\ fpc' = [fpc EXCEPT ![c] = "fanout"]
               /\ fret' = [fret EXCEPT ![c] = Nil]
               /\ etask' = [etask EXCEPT ![c] = ExecSpawned(Len(Targets(ctl)))]
    /\ targetsResult' = NoTargets
    /\ UNCHANGED <<pods, ctxCancelled, cpc, selector, ctl, snapshot, itask, ierrors,
                   isent, cret, disruptor, nConstruct, nEnv, built, api, proxyVars>>

Serialized == \A d \in Callers : fpc[d] # "fanout"

HTTPFaultCall(c) ==
    \E fault \in HTTPFaults, duration \in Durations, failAt \in 0..Len(Targets(ctl)) :
        InjectFaults(c, "http", fault.Port,
                     buildHTTPFaultCmd(fault, duration, NoOptions), failAt)

GrpcFaultCall(c) ==
    \E fault \in GrpcFaults, duration \in Durations, failAt \in 0..Len(Targets(ctl)) :
        InjectFaults(c, "grpc", fault.Port,
                     buildGrpcFaultCmd(fault, duration, NoOptions), failAt)

\* A fault call made while no other call on the handle is in progress.
InjectHTTPFaults(c) == Serialized /\ HTTPFaultCall(c)
InjectGrpcFaults(c) == Serialized /\ GrpcFaultCall(c)

\* Fault descriptors with an error rate and no error code (ErrorCode, or
\* StatusCode, left at its zero value).
CodelessFaults == {[NoFault EXCEPT !.ErrorRate = 100000]}

\* A fault call made with such a descriptor.
InjectCodelessHTTPFaults(c) ==
    /\ Serialized
    /\ \E fault \in CodelessFaults, duration \in Durations, failAt \in 0..Len(Targets(ctl)) :
          InjectFaults(c, "http", fault.Port,
                       buildHTTPFaultCmd(fault, duration, NoOptions), failAt)

InjectCodelessGrpcFaults(c) ==
    /\ Serialized
    /\ \E fault \in CodelessFaults, duration \in Durations, failAt \in 0..Len(Targets(ctl)) :
          InjectFaults(c, "grpc", fault.Port,
                       buildGrpcFaultCmd(fault, duration, NoOptions), failAt)

\* A fault call made by a second goroutine while a call is in progress.
OverlappingHTTPFaults(c) == ~Serialized /\ HTTPFaultCall(c)

execVars == <<ctxCancelled, cpc, selector, ctl, snapshot, itask, ierrors, isent,
              cret, disruptor, call, targetsResult, nConstruct, nFault, nEnv,
              built, api, proxyVars>>

\* The goroutine of target i of caller c's ExecCommand issues its Exec.
ExecStart(c, i) ==
    /\ i \in 1..Len(etask[c])
    /\ etask[c][i].pc = "spawned"
    /\ etask' = [etask EXCEPT ![c][i] =
                    [pc |-> "inflight",
                     reqs |-> Append(@.reqs, ExecRequest(ctl.namespace, ctl.targets[i],
                                                         call[c].cmd))]]
    /\ UNCHANGED <<pods, fpc, eerrors, esent, fret>>
    /\ UNCHANGED execVars

\* The Exec returns when the agent exits: the goroutine reports a failure and
\* calls wg.Done().
ExecReturn(c, i) ==
    /\ i \in 1..Len(etask[c])
    /\ etask[c][i].pc = "inflight"
    /\ \E ok \in BOOLEAN :
        IF ok
          THEN UNCHANGED <<eerrors, esent>>
          ELSE /\ CanSend(eerrors[c], Len(ctl.targets))
               /\ eerrors' = [eerrors EXCEPT ![c] = Append(@, Err("AgentExecFailed", ctl.targets[i]))]
               /\ esent' = [esent EXCEPT ![c] = Append(@, Err("AgentExecFailed", ctl.targets[i]))]
    /\ etask' = [etask EXCEPT ![c][i].pc = "done"]
    /\ UNCHANGED <<pods, fpc, fret>>
    /\ UNCHANGED execVars

\* ExecCommand from wg.Wait() on, and the fault call's return.
FaultReturn(c) ==
    /\ fpc[c] = "fanout"
    /\ WaitDone(etask[c])
    /\ fret' = [fret EXCEPT ![c] = FirstError(eerrors[c])]
    /\ eerrors' = [eerrors EXCEPT ![c] = IF @ = <<>> THEN <<>> ELSE Tail(@)]
    /\ fpc' = [fpc EXCEPT ![c] = "returned"]
    /\ UNCHANGED <<pods, etask, esent>>
    /\ UNCHANGED execVars

\* podDisruptor.Targets()
TargetsCall ==
    /\ disruptor
    /\ Serialized
    /\ targetsResult # Targets(ctl)
    /\ targetsResult' = Targets(ctl)
    /\ UNCHANGED <<pods, ctxCancelled, cpc, selector, ctl, snapshot, itask, ierrors,
                   isent, cret, disruptor, fpc, call, etask, eerrors, esent, fret,
                   nConstruct, nFault, nEnv, built, api, proxyVars>>

\* ------------------------------------------------------- the environment
envVars == <<cpc, selector, ctl, snapshot, itask, ierrors, isent, cret, disruptor,
             fpc, call, etask, eerrors, esent, fret, targetsResult, nConstruct, nFault,
             built, api, proxyVars>>

DeletePod(p) ==
    /\ nEnv < MaxEnv
    /\ pods[p].exists
    /\ pods' = [pods EXCEPT ![p].exists = FALSE, ![p].eph = <<>>]
    /\ nEnv' = nEnv + 1
    /\ UNCHANGED ctxCancelled
    /\ UNCHANGED envVars

CreatePod(p) ==
    /\ nEnv < MaxEnv
    /\ ~pods[p].exists
    /\ pods' = [pods EXCEPT ![p].exists = TRUE]
    /\ nEnv' = nEnv + 1
    /\ UNCHANGED ctxCancelled
    /\ UNCHANGED envVars

CancelContext ==
    /\ nEnv < MaxEnv
    /\ cpc # "idle"
    /\ ~ctxCancelled
    /\ ctxCancelled' = TRUE
    /\ nEnv' = nEnv + 1
    /\ UNCHANGED pods
    /\ UNCHANGED envVars

\* ------------------------------------------------- the command builders
ctlVars == <<pods, ctxCancelled, cpc, selector, ctl, snapshot, itask, ierrors,
             isent, cret, disruptor, fpc, call, etask, eerrors, esent, fret,
             targetsResult, nConstruct, nFault, nEnv>>

\* A call of buildHTTPFaultCmd on the input at hand.
BuildHTTP ==
    /\ built.pc = "input"
    /\ built' = [built EXCEPT !.pc = "built", !.proto = "http",
                    !.argv = buildHTTPFaultCmd(built.fault, built.duration, built.options)]
    /\ UNCHANGED ctlVars
    /\ UNCHANGED <<api, proxyVars>>

\* A call of buildGrpcFaultCmd on the input at hand.
BuildGrpc ==
    /\ built.pc = "input"
    /\ built' = [built EXCEPT !.pc = "built", !.proto = "grpc",
                    !.argv = buildGrpcFaultCmd(built.fault, built.duration, built.options)]
    /\ UNCHANGED ctlVars
    /\ UNCHANGED <<api, proxyVars>>

\* ---------------------------------------------------- the scripting layer
\* The values a script passes to a constructor, by what they convert to.
NotCalled == [pc |-> "none", ctor |-> "-", args |-> <<>>, err |-> "none"]

ArgLists(values, maxLen) == UNION {[1..n -> values] : n \in 0..maxLen}
PodCtorArgs == ArgLists({"null", "object", "string"}, 2)
ServiceCtorArgs == ArgLists({"string", "object", "unconvertible"}, 3)

\* goja's ConstructorCall.Argument: undefined beyond the arguments given.
Argument(args, i) == IF i <= Len(args) THEN args[i] ELSE "undefined"

\* rt.ExportTo into a struct: null and undefined export to the zero value.
ExportsToStruct(v) == v \in {"object", "null", "undefined"}
\* rt.ExportTo into a string.
ExportsToString(v) == v # "unconvertible"

\* The null check left out.
IsNullNever(v) == FALSE
\* c.Argument(0).Equals(goja.Null())
IsNull(v) == v = "null"

\* The checks of api.NewPodDisruptor before it calls disruptors.NewPodDisruptor.
PodCtorError(args) ==
    IF IsNull(Argument(args, 1)) THEN "NullSelector"
    ELSE IF ~ExportsToStruct(Argument(args, 1)) THEN "BadSelector"
    ELSE IF ~ExportsToStruct(Argument(args, 2)) THEN "BadOptions"
    ELSE "none"

\* The checks of api.NewServiceDisruptor before it calls
\* disruptors.NewServiceDisruptor.
ServiceCtorError(args) ==
    IF Len(args) < 2 THEN "Arity"
    ELSE IF ~ExportsToString(Argument(args, 1)) THEN "BadService"
    ELSE IF ~ExportsToString(Argument(args, 2)) THEN "BadNamespace"
    ELSE IF Len(args) > 2 /\ ~ExportsToStruct(Argument(args, 3)) THEN "BadOptions"
    ELSE "none"

\* return nil, fmt.Errorf(...) before any call into package disruptors.
ApiReject(ctor, args, err) ==
    /\ api' = [pc |-> "rejected", ctor |-> ctor, args |-> args, err |-> err]
    /\ UNCHANGED ctlVars
    /\ UNCHANGED <<built, proxyVars>>

\* disruptors.NewServiceDisruptor: a pod disruptor over the pods backing the
\* service in the namespace.
NewServiceDisruptor(ns) ==
    \/ NewPodDisruptor(ns, Err("Unavailable", "-"), <<>>)
    \/ \E ts \in GetTargets(ns) : NewPodDisruptor(ns, Nil, ts)

\* api.NewPodDisruptor, called by the script.
ApiNewPodDisruptor ==
    /\ cpc # "injecting"
    /\ \E args \in PodCtorArgs :
        LET err == PodCtorError(args) IN
        IF err # "none" THEN ApiReject("PodDisruptor", args, err)
        ELSE /\ api' = [pc |-> "delegated", ctor |-> "PodDisruptor", args |-> args,
                        err |-> "none"]
             /\ UNCHANGED <<built, proxyVars>>
             /\ \E ns \in Namespaces :
                  \/ NewPodDisruptor(ns, Err("Unavailable", "-"), <<>>)
                  \/ \E ts \in GetTargets(ns) : NewPodDisruptor(ns, Nil, ts)

\* api.NewServiceDisruptor, called by the script.
ApiNewServiceDisruptor ==
    /\ cpc # "injecting"
    /\ \E args \in ServiceCtorArgs :
        LET err == ServiceCtorError(args) IN
        IF err # "none" THEN ApiReject("ServiceDisruptor", args, err)
        ELSE /\ api' = [pc |-> "delegated", ctor |-> "ServiceDisruptor", args |-> args,
                        err |-> "none"]
             /\ UNCHANGED <<built, proxyVars>>
             /\ \E ns \in Namespaces : NewServiceDisruptor(ns)

\* ------------------------------------------------------- the gRPC proxy
\* protocol/grpc/handler.go: streamHandler serves one call of the caller
\* (serverStream) by a call to the backend (clientStream) and two forwarding
\* goroutines.  The streams are the gRPC library's: a receive yields the
\* next message, io.EOF or an error, and yields a cancellation once the
\* stream's context is done; a send succeeds or fails.
MaxMsgs == 2

NotReturned == [kind |-> "none", err |-> "-", ended |-> "-"]

\* serverStream.RecvMsg (handler.go:133).
ServerRecvOutcomes ==
    IF serverDone THEN {"Canceled"}
    ELSE {"EOF", "RecvErr"} \cup (IF fromCaller < MaxMsgs THEN {"msg"} ELSE {})

\* clientStream.RecvMsg (handler.go:101).
ClientRecvOutcomes ==
    IF clientCancelled THEN {"Canceled"}
    ELSE {"EOF", "RPCErr"} \cup (IF fromBackend < MaxMsgs THEN {"msg"} ELSE {})

\* clientStream.SendMsg (handler.go:137): a send on a stream that is over
\* yields io.EOF or the stream's status.
ClientSendOutcomes ==
    IF clientCancelled THEN {"EOF", "Canceled"} ELSE {"ok", "EOF", "SendErr"}

\* clientStream.Header (handler.go:109).
HeaderOutcomes == {"ok", "HeaderErr"}

\* serverStream.SendHeader (handler.go:114).
SendHeaderOutcomes ==
    IF serverDone THEN {"SendHeaderErr"} ELSE {"ok", "SendHeaderErr"}

\* serverStream.SendMsg (handler.go:119).
ServerSendOutcomes == IF serverDone THEN {"SendErr"} ELSE {"ok", "SendErr"}

\* ret := make(chan error, 1): a send proceeds while the buffer has room.
ErrChanUnbuffered(ch) == Len(ch) < 1 /\ hpc = "select"
ErrChanReady(ch) == Len(ch) < 1

\* ret <- err; break: the goroutine leaves its loop after its send.
BreakNever(next) == next
Break(next) == "done"

\* if i == 0: the headers are forwarded before the first message only.
HeaderAlways(i) == TRUE
HeaderDue(i) == i = 0

\* defer clientCancel(): the backend context is cancelled at every return.
DeferredDropped(cancelled) == cancelled
Deferred(cancelled) == TRUE

\* if !errors.Is(c2sErr, io.EOF) { return c2sErr }; return nil.
ReturnedErrorWrapped(err) ==
    IF err = "EOF" THEN [kind |-> "nil", err |-> "-", ended |-> backendEnd]
    ELSE [kind |-> "ForwardInternal", err |-> err, ended |-> backendEnd]
ReturnedError(err) ==
    IF err = "EOF" THEN [kind |-> "nil", err |-> "-", ended |-> backendEnd]
    ELSE [kind |-> "Backend", err |-> err, ended |-> backendEnd]

\* A return of streamHandler: the deferred cancel runs and the caller's
\* stream is over.
HandlerReturns(ret, cancelled) ==
    /\ hpc' = "returned"
    /\ hret' = ret
    /\ clientCancelled' = Deferred(cancelled)
    /\ serverDone' = TRUE

goVars == <<s2c, c2s, s2cSends, c2sSends, toBackend, toCaller, fromCaller,
            fromBackend, backendEnd>>

\* streamHandler up to its loop (handler.go:38-65).
StreamHandler ==
    /\ hpc = "idle"
    /\ \/ /\ HandlerReturns([kind |-> "NoTransportStream", err |-> "-",
                             ended |-> backendEnd], clientCancelled)
          /\ UNCHANGED <<hiter, s2c, c2s>>
       \/ /\ HandlerReturns([kind |-> "NewStreamErr", err |-> "DialErr",
                             ended |-> backendEnd], clientCancelled)
          /\ UNCHANGED <<hiter, s2c, c2s>>
       \/ /\ hpc' = "select"
          /\ hiter' = 0
          /\ s2c' = [pc |-> "recv"]
          /\ c2s' = [pc |-> "recv", i |-> 0]
          /\ UNCHANGED <<hret, clientCancelled, serverDone>>
    /\ UNCHANGED <<trailers, closeSends, s2cErrChan, c2sErrChan, s2cSends,
                   c2sSends, toBackend, toCaller, fromCaller, fromBackend,
                   backendEnd>>
    /\ UNCHANGED <<ctlVars, built, api>>

\* case s2cErr := <-s2cErrChan, then the loop's condition and, when it
\* fails, the statement after the loop (handler.go:67-80, 93).
SelectS2C ==
    /\ hpc = "select"
    /\ hiter < 2
    /\ s2cErrChan # <<>>
    /\ s2cErrChan' = Tail(s2cErrChan)
    /\ IF Head(s2cErrChan) = "EOF"
       THEN /\ closeSends' = closeSends + 1
            /\ hiter' = hiter + 1
            /\ IF hiter + 1 < 2
               THEN UNCHANGED <<hpc, hret, clientCancelled, serverDone>>
               ELSE HandlerReturns([kind |-> "Unreachable", err |-> "-",
                                    ended |-> backendEnd], clientCancelled)
       ELSE /\ HandlerReturns([kind |-> "ForwardInternal",
                               err |-> Head(s2cErrChan),
                               ended |-> backendEnd], TRUE)
            /\ UNCHANGED <<closeSends, hiter>>
    /\ UNCHANGED <<trailers, c2sErrChan>>
    /\ UNCHANGED goVars
    /\ UNCHANGED <<ctlVars, built, api>>

\* case c2sErr := <-c2sErrChan (handler.go:81-90).
SelectC2S ==
    /\ hpc = "select"
    /\ hiter < 2
    /\ c2sErrChan # <<>>
    /\ c2sErrChan' = Tail(c2sErrChan)
    /\ trailers' = trailers + 1
    /\ HandlerReturns(ReturnedError(Head(c2sErrChan)), clientCancelled)
    /\ UNCHANGED <<hiter, closeSends, s2cErrChan>>
    /\ UNCHANGED goVars
    /\ UNCHANGED <<ctlVars, built, api>>

hVars == <<hpc, hiter, hret, trailers, closeSends, clientCancelled, serverDone>>

\* ret <- err; break in forwardServerToClient.
S2CFails(err) ==
    /\ ErrChanReady(s2cErrChan)
    /\ s2cErrChan' = Append(s2cErrChan, err)
    /\ s2cSends' = s2cSends + 1
    /\ s2c' = [pc |-> Break("recv")]

\* ret <- err; break in forwardClientToServer.
C2SFails(err) ==
    /\ ErrChanReady(c2sErrChan)
    /\ c2sErrChan' = Append(c2sErrChan, err)
    /\ c2sSends' = c2sSends + 1
    /\ c2s' = [c2s EXCEPT !.pc = Break("recv")]

\* forwardServerToClient: src.RecvMsg(f) (handler.go:133-136).
S2CRecv ==
    /\ s2c.pc = "recv"
    /\ \E o \in ServerRecvOutcomes :
         IF o = "msg"
         THEN /\ fromCaller' = fromCaller + 1
              /\ s2c' = [pc |-> "send"]
              /\ UNCHANGED <<s2cErrChan, s2cSends>>
         ELSE /\ S2CFails(o)
              /\ UNCHANGED fromCaller
    /\ UNCHANGED <<c2s, c2sErrChan, c2sSends, toBackend, toCaller, fromBackend,
                   backendEnd>>
    /\ UNCHANGED hVars
    /\ UNCHANGED <<ctlVars, built, api>>

\* forwardServerToClient: dst.SendMsg(f) (handler.go:137-140).
S2CSend ==
    /\ s2c.pc = "send"
    /\ \E o \in ClientSendOutcomes :
         IF o = "ok"
         THEN /\ toBackend' = Append(toBackend, fromCaller)
              /\ s2c' = [pc |-> "recv"]
              /\ UNCHANGED <<s2cErrChan, s2cSends>>
         ELSE /\ S2CFails(o)
              /\ UNCHANGED toBackend
    /\ UNCHANGED <<c2s, c2sErrChan, c2sSends, toCaller, fromCaller, fromBackend,
                   backendEnd>>
    /\ UNCHANGED hVars
    /\ UNCHANGED <<ctlVars, built, api>>

\* forwardClientToServer: src.RecvMsg(f) (handler.go:101-104).
C2SRecv ==
    /\ c2s.pc = "recv"
    /\ \E o \in ClientRecvOutcomes :
         IF o = "msg"
         THEN /\ fromBackend' = fromBackend + 1
              /\ c2s' = [c2s EXCEPT !.pc = IF HeaderDue(c2s.i) THEN "header"
                                           ELSE "send"]
              /\ UNCHANGED <<c2sErrChan, c2sSends, backendEnd>>
         ELSE /\ C2SFails(o)
              /\ backendEnd' = o
              /\ UNCHANGED fromBackend
    /\ UNCHANGED <<s2c, s2cErrChan, s2cSends, toBackend, toCaller, fromCaller>>
    /\ UNCHANGED hVars
    /\ UNCHANGED <<ctlVars, built, api>>

\* forwardClientToServer: md, err := src.Header() (handler.go:109-113).
C2SHeader ==
    /\ c2s.pc = "header"
    /\ \E o \in HeaderOutcomes :
         IF o = "ok"
         THEN /\ c2s' = [c2s EXCEPT !.pc = "sendheader"]
              /\ UNCHANGED <<c2sErrChan, c2sSends>>
         ELSE C2SFails(o)
    /\ UNCHANGED <<s2c, s2cErrChan, s2cSends, toBackend, toCaller, fromCaller,
                   fromBackend, backendEnd>>
    /\ UNCHANGED hVars
    /\ UNCHANGED <<ctlVars, built, api>>

\* forwardClientToServer: dst.SendHeader(md) (handler.go:114-117).
C2SSendHeader ==
    /\ c2s.pc = "sendheader"
    /\ \E o \in SendHeaderOutcomes :
         IF o = "ok"
         THEN /\ toCaller' = Append(toCaller, 0)
              /\ c2s' = [c2s EXCEPT !.pc = "send"]
              /\ UNCHANGED <<c2sErrChan, c2sSends>>
         ELSE /\ C2SFails(o)
              /\ UNCHANGED toCaller
    /\ UNCHANGED <<s2c, s2cErrChan, s2cSends, toBackend, fromCaller,
                   fromBackend, backendEnd>>
    /\ UNCHANGED hVars
    /\ UNCHANGED <<ctlVars, built, api>>

\* forwardClientToServer: dst.SendMsg(f) (handler.go:119-122).
C2SSend ==
    /\ c2s.pc = "send"
    /\ \E o \in ServerSendOutcomes :
         IF o = "ok"
         THEN /\ toCaller' = Append(toCaller, fromBackend)
              /\ c2s' = [pc |-> "recv", i |-> c2s.i + 1]
              /\ UNCHANGED <<c2sErrChan, c2sSends>>
         ELSE /\ C2SFails(o)
              /\ UNCHANGED toCaller
    /\ UNCHANGED <<s2c, s2cErrChan, s2cSends, toBackend, fromCaller,
                   fromBackend, backendEnd>>
    /\ UNCHANGED hVars
    /\ UNCHANGED <<ctlVars, built, api>>

\* The proxy before a call reaches it.
InitProxy ==
    /\ hpc = "idle"
    /\ hiter = 0
    /\ hret = NotReturned
    /\ trailers = 0
    /\ closeSends = 0
    /\ clientCancelled = FALSE
    /\ serverDone = FALSE
    /\ s2cErrChan = <<>>
    /\ c2sErrChan = <<>>
    /\ s2c = [pc |-> "none"]
    /\ c2s = [pc |-> "none", i |-> 0]
    /\ s2cSends = 0
    /\ c2sSends = 0
    /\ toBackend = <<>>
    /\ toCaller = <<>>
    /\ fromCaller = 0
    /\ fromBackend = 0
    /\ backendEnd = "none"

\* ------------------------------------------------------- specification
\* The cluster and the controller before any call.
InitController ==
    /\ pods \in {[p \in Pods |-> IF p = "p1" THEN Pod(PortsHTTP, <<>>) ELSE q] :
                   q \in {Pod(PortsHTTP, <<>>), Pod(PortsOther, <<"debugger">>),
                          [Pod(PortsHTTP, <<>>) EXCEPT !.exists = FALSE]}}
    /\ ctxCancelled = FALSE
    /\ cpc = "idle"
    /\ selector = [Namespace |-> ""]
    /\ ctl = NewAgentController("-", <<>>)
    /\ snapshot = NoTargets
    /\ itask = <<>>
    /\ ierrors = <<>>
    /\ isent = <<>>
    /\ cret = Nil
    /\ disruptor = FALSE
    /\ fpc = [c \in Callers |-> "idle"]
    /\ call = [c \in Callers |-> [proto |-> "-", port |-> 0, cmd |-> <<>>]]
    /\ etask = [c \in Callers |-> <<>>]
    /\ eerrors = [c \in Callers |-> <<>>]
    /\ esent = [c \in Callers |-> <<>>]
    /\ fret = [c \in Callers |-> Nil]
    /\ targetsResult = NoTargets
    /\ nConstruct = 0
    /\ nFault = 0
    /\ nEnv = 0

Init ==
    /\ InitController
    /\ built = NotBuilt
    /\ api = NotCalled
    /\ InitProxy

Next ==
    \/ Construct
    \/ \E i \in 1..Cardinality(Pods) : InjectGet(i)
    \/ \E i \in 1..Cardinality(Pods) : InjectAttach(i)
    \/ ConstructReturn
    \/ \E c \in Callers : InjectHTTPFaults(c)
    \/ \E c \in Callers : InjectGrpcFaults(c)
    \/ \E c \in Callers, i \in 1..Cardinality(Pods) : ExecStart(c, i)
    \/ \E c \in Callers, i \in 1..Cardinality(Pods) : ExecReturn(c, i)
    \/ \E c \in Callers : FaultReturn(c)
    \/ TargetsCall
    \/ \E p \in Pods : DeletePod(p)
    \/ \E p \in Pods : CreatePod(p)
    \/ CancelContext

Spec == Init /\ [][Next]_vars

\* The handle shared by two goroutines that do not serialize their calls.
NextOverlap ==
    \/ Next
    \/ \E c \in Callers : OverlappingHTTPFaults(c)

SpecOverlap == Init /\ [][NextOverlap]_vars

\* The goroutines of the program are scheduled and the cluster answers the
\* fetches and attaches; nothing makes an agent exit, so no fairness is
\* assumed of an Exec's return.
Fairness ==
    /\ WF_vars(ConstructReturn)
    /\ \A i \in 1..Cardinality(Pods) : WF_vars(InjectGet(i)) /\ WF_vars(InjectAttach(i))
    /\ \A c \in Callers : WF_vars(FaultReturn(c))
    /\ \A c \in Callers, i \in 1..Cardinality(Pods) : WF_vars(ExecStart(c, i))

FairSpec == Spec /\ Fairness

\* Fault calls made with descriptors that break the descriptor's invariant too.
NextDescriptor ==
    \/ Next
    \/ \E c \in Callers : InjectCodelessHTTPFaults(c)
    \/ \E c \in Callers : InjectCodelessGrpcFaults(c)

SpecDescriptor == Init /\ [][NextDescriptor]_vars

\* Constructions, among them constructions over a list that names a pod twice.
NextDuplicate ==
    \/ Construct
    \/ ConstructDuplicate
    \/ \E i \in 1..Cardinality(Pods) : InjectGet(i)
    \/ \E i \in 1..Cardinality(Pods) : InjectAttach(i)
    \/ ConstructReturn
    \/ \E p \in Pods : DeletePod(p)
    \/ \E p \in Pods : CreatePod(p)
    \/ CancelContext

SpecDuplicate == Init /\ [][NextDuplicate]_vars

\* The command builders called on their own, on every input of BuildInputs.
InitCmd ==
    /\ InitController
    /\ api = NotCalled
    /\ InitProxy
    /\ built \in {BuildInput(f, d, o) : f \in FaultInputs, d \in Durations, o \in OptionInputs}

NextCmd == BuildHTTP \/ BuildGrpc

SpecCmd == InitCmd /\ [][NextCmd]_vars

\* A script constructing disruptors through the scripting layer.
NextApi ==
    \/ ApiNewPodDisruptor
    \/ ApiNewServiceDisruptor
    \/ \E i \in 1..Cardinality(Pods) : InjectGet(i)
    \/ \E i \in 1..Cardinality(Pods) : InjectAttach(i)
    \/ ConstructReturn

SpecApi == Init /\ [][NextApi]_vars

\* One call served by the proxy.
NextProxy ==
    \/ StreamHandler
    \/ SelectS2C
    \/ SelectC2S
    \/ S2CRecv
    \/ S2CSend
    \/ C2SRecv
    \/ C2SHeader
    \/ C2SSendHeader
    \/ C2SSend

SpecProxy == Init /\ [][NextProxy]_vars

\* Once streamHandler has returned both contexts are done, so every stream
\* operation of a forwarding goroutine returns and the goroutine takes its
\* next step.  Before that a receive may wait for ever.
FairnessProxy ==
    /\ WF_vars(hpc = "returned" /\ S2CRecv)
    /\ WF_vars(hpc = "returned" /\ S2CSend)
    /\ WF_vars(hpc = "returned" /\ C2SRecv)
    /\ WF_vars(hpc = "returned" /\ C2SHeader)
    /\ WF_vars(hpc = "returned" /\ C2SSendHeader)
    /\ WF_vars(hpc = "returned" /\ C2SSend)

FairSpecProxy == SpecProxy /\ FairnessProxy

\* ------------------------------------------------------------------ claims
\* The port a fault call is validated against, and the targets of the
\* snapshot none of whose (regular) containers declares it.
Declares(p, port) ==
    port \in UNION {Range(pods[p].containers[k]) : k \in 1..Len(pods[p].containers)}
Lacking(c) ==
    {p \in Range(ctl.targets) :
        ~Declares(p, IF call[c].port = 0 THEN 80 ELSE call[c].port)}
ExecIssued(c) == \E i \in 1..Len(etask[c]) : etask[c][i].reqs # <<>>
FetchErrors == {"Canceled", "Unavailable", "NotFound"}
IndexOf(seq, x) == CHOOSE i \in 1..Len(seq) : seq[i] = x

\* C1 as stated: when some target lacks the effective port the fault call
\* returns the port error naming such a target and issues no Exec, and when
\* every target declares the port validation does not fail the call.
C1_PortErrorOrPass ==
    \A c \in Callers : fpc[c] # "idle" =>
        /\ Lacking(c) # {} =>
              /\ fpc[c] = "rejected"
              /\ fret[c].kind = "PortNotListening"
              /\ fret[c].target \in Lacking(c)
              /\ ~ExecIssued(c)
        /\ Lacking(c) = {} => fpc[c] # "rejected"

\* C1 amended: validation scans the snapshot in order and fails the call at
\* the first target whose fetch fails (with the fetch error) or that declares
\* no matching port (with the port error naming it); a call that fails so
\* issues no Exec; a call whose targets are all fetched and all declare the
\* port is not failed by validation.
C1_ValidationBeforeExec ==
    \A c \in Callers : fpc[c] # "idle" =>
        /\ Lacking(c) # {} => fpc[c] = "rejected"
        /\ fpc[c] = "rejected" =>
              /\ ~ExecIssued(c)
              /\ fret[c].kind \in FetchErrors \cup {"PortNotListening"}
              /\ fret[c].target \in Range(ctl.targets)
              /\ fret[c].kind = "PortNotListening" =>
                    /\ fret[c].target \in Lacking(c)
                    /\ \A j \in 1..(IndexOf(ctl.targets, fret[c].target) - 1) :
                          ctl.targets[j] \notin Lacking(c)
        /\ (fpc[c] = "rejected" /\ Lacking(c) = {}) => fret[c].kind \in FetchErrors

\* A call over two targets of which the second alone lacks the port.
C1_Witness ==
    \E c \in Callers :
        /\ fpc[c] = "rejected"
        /\ fret[c].kind = "PortNotListening"
        /\ Len(ctl.targets) = 2
        /\ Lacking(c) = {ctl.targets[2]}

\* C2: while and after ExecCommand runs, every target of the snapshot has at
\* most one Exec request, addressed to container "xk6-agent" of that target in
\* the controller's namespace with the call's argv and empty stdin; once the
\* call has returned every target has exactly one, failed or not.
C2_OneExecPerTarget ==
    \A c \in Callers :
        /\ fpc[c] \in {"fanout", "returned"} =>
              /\ Len(etask[c]) = Len(snapshot)
              /\ \A i \in 1..Len(etask[c]) :
                    /\ Len(etask[c][i].reqs) <= 1
                    /\ \A k \in 1..Len(etask[c][i].reqs) :
                          etask[c][i].reqs[k] =
                              [namespace |-> DefaultNamespace(selector.Namespace),
                               pod |-> snapshot[i], container |-> "xk6-agent",
                               argv |-> call[c].cmd, stdin |-> <<>>]
                    /\ fpc[c] = "returned" => Len(etask[c][i].reqs) = 1
        /\ fpc[c] \notin {"fanout", "returned"} => ~ExecIssued(c)

\* A returned call over two targets one of whose Execs failed.
C2_Witness ==
    \E c \in Callers :
        /\ fpc[c] = "returned"
        /\ Len(etask[c]) = 2
        /\ esent[c] # <<>>
        /\ call[c].proto = "grpc"

\* C3: a fault call that has returned from ExecCommand has all its per-target
\* goroutines finished, one for every target of the snapshot.
C3_ReturnsAfterAllTasks ==
    \A c \in Callers : fpc[c] = "returned" =>
        /\ Len(etask[c]) = Len(snapshot)
        /\ \A i \in 1..Len(etask[c]) : etask[c][i].pc = "done"

\* A call over two targets, returned, whose first finished Exec had failed
\* and whose other Exec succeeded.
C3_Witness ==
    \E c \in Callers :
        /\ fpc[c] = "returned"
        /\ Len(etask[c]) = 2
        /\ Len(esent[c]) = 1
        /\ call[c].proto = "http"

InjectionReported ==
    \E i \in 1..Len(itask) :
        itask[i].fetched = FetchError \/ itask[i].attach \in {"fail", "timeout"}

\* C4: both fan-outs return nil exactly when no goroutine reported an error,
\* and otherwise the error that was sent first on the errors channel.
C4_FirstError ==
    /\ (cpc = "returned" /\ snapshot # NoTargets) =>
          /\ cret = (IF isent = <<>> THEN Nil ELSE isent[1])
          /\ (cret = Nil) <=> ~InjectionReported
    /\ \A c \in Callers : fpc[c] = "returned" =>
          /\ fret[c] = (IF esent[c] = <<>> THEN Nil ELSE esent[c][1])
          /\ Len(esent[c]) <= Len(etask[c])

\* Both Execs of a call failed, and both injections of a construction.
C4_Witness ==
    \E c \in Callers :
        /\ fpc[c] = "returned"
        /\ Len(esent[c]) = 2
        /\ esent[c][1] # esent[c][2]

C4_WitnessInjection ==
    /\ cpc = "returned"
    /\ Len(isent) = 2
    /\ isent[1].target # isent[2].target

FetchedOk(t) == t.fetched \notin {NotFetched, FetchError}
ReportedFor(p) == \E k \in 1..Len(isent) : isent[k].target = p

\* C5: an injection goroutine calls AttachEphemeralContainer exactly when its
\* fetch succeeded and showed no ephemeral container named "xk6-agent"; a
\* failed fetch is reported and nothing is attached; a target that has the
\* agent is skipped and nothing is reported for it.
C5_InjectionProtocol ==
    \A i \in 1..Len(itask) :
        LET t == itask[i] IN
        /\ t.attach # "none" => (FetchedOk(t) /\ AgentName \notin Range(t.fetched))
        /\ t.pc = "done" =>
              (t.attach # "none" <=> (FetchedOk(t) /\ AgentName \notin Range(t.fetched)))
        /\ t.fetched = FetchError =>
              /\ t.attach = "none"
              /\ \E k \in 1..Len(isent) :
                    isent[k].target = snapshot[i] /\ isent[k].kind \in FetchErrors
        /\ (FetchedOk(t) /\ AgentName \in Range(t.fetched)) =>
              /\ t.pc = "done"
              /\ t.attach = "none"
              /\ ~ReportedFor(snapshot[i])

\* A construction that skipped a target having the agent beside another
\* ephemeral container.
C5_Witness ==
    \E i \in 1..Len(itask) :
        /\ itask[i].pc = "done"
        /\ FetchedOk(itask[i])
        /\ Len(itask[i].fetched) = 2
        /\ AgentName \in Range(itask[i].fetched)

AgentCount(p) == Cardinality({k \in 1..Len(pods[p].eph) : pods[p].eph[k] = AgentName})
NoGatewayFailure ==
    \A i \in 1..Len(itask) :
        itask[i].fetched # FetchError /\ itask[i].attach \in {"none", "ok"}

\* C6: no pod ever carries two ephemeral containers named "xk6-agent"; a
\* construction none of whose gateway calls failed returns the handle, and it
\* called attach only on the targets that its fetch showed without the agent.
C6_AtMostOneAgent ==
    /\ \A p \in Pods : AgentCount(p) <= 1
    /\ (cpc = "returned" /\ snapshot # NoTargets /\ NoGatewayFailure) =>
          /\ cret = Nil
          /\ disruptor
    /\ \A i \in 1..Len(itask) :
          itask[i].attach # "none" => AgentName \notin Range(itask[i].fetched)

\* The second construction succeeds after a first one that failed: it skips
\* the target the first one had injected and attaches the agent to the other.
C6_Witness ==
    /\ nConstruct = 2
    /\ cpc = "returned"
    /\ disruptor
    /\ \E i, j \in 1..Len(itask) :
          /\ AgentName \in Range(itask[i].fetched)
          /\ itask[j].attach = "ok"
    /\ \A p \in Range(snapshot) : AgentCount(p) = 1

\* C7: the controller's targets are the list captured at construction, and
\* Targets() returns that list.
C7_TargetsIsSnapshot ==
    disruptor =>
        /\ Targets(ctl) = snapshot
        /\ targetsResult # NoTargets => targetsResult = snapshot

\* Targets() called after a fault call and after the snapshot's instances
\* stopped being the cluster's.
C7_Witness ==
    /\ disruptor
    /\ targetsResult = snapshot
    /\ Len(snapshot) = 2
    /\ nFault > 0
    /\ {p \in Pods : pods[p].exists} # Range(snapshot)

\* C8: NewPodDisruptor returns a handle exactly when the targets were resolved
\* and no injection goroutine reported an error; a failed resolution starts no
\* injection; without a handle the constructor returns an error, and fault
\* calls are made only on a handle.
C8_HandleIffInjected ==
    /\ cpc = "returned" =>
          /\ disruptor <=> (snapshot # NoTargets /\ isent = <<>>)
          /\ disruptor <=> (cret = Nil)
          /\ snapshot = NoTargets => itask = <<>>
    /\ cpc # "returned" => ~disruptor
    /\ \A c \in Callers : fpc[c] # "idle" => (disruptor /\ ~InjectionReported)

\* A construction over two targets that failed on one of them only.
C8_Witness ==
    /\ cpc = "returned"
    /\ ~disruptor
    /\ Len(snapshot) = 2
    /\ Len(isent) = 1
    /\ \E i \in 1..Len(itask) : itask[i].attach = "ok"

InFlight(c, p) ==
    {i \in 1..Len(etask[c]) : etask[c][i].pc = "inflight" /\ ctl.targets[i] = p}
InFlightOn(p) == {<<c, i>> \in Callers \X (1..Cardinality(Pods)) : i \in InFlight(c, p)}
AfterInjection ==
    \A c \in Callers : \A i \in 1..Len(etask[c]) :
        etask[c][i].reqs # <<>> =>
            /\ cpc = "returned"
            /\ i \in 1..Len(itask)
            /\ itask[i].pc = "done"

\* C9 as stated: no Exec is issued on a target before its injection goroutine
\* has finished, and no target ever has two Execs of the handle in flight.
C9_OneCommandPerTarget ==
    /\ AfterInjection
    /\ \A p \in Pods : Cardinality(InFlightOn(p)) <= 1

\* C9 amended: no Exec is issued on a target before its injection goroutine
\* has finished; one fault call has at most one Exec in flight per target; and
\* while at most one fault call is in progress on the handle, every target has
\* at most one Exec in flight.  (Calls that overlap are not serialized.)
C9_OneCommandPerTargetPerCall ==
    /\ AfterInjection
    /\ \A c \in Callers, p \in Pods : Cardinality(InFlight(c, p)) <= 1
    /\ Cardinality({c \in Callers : fpc[c] = "fanout"}) <= 1 =>
          \A p \in Pods : Cardinality(InFlightOn(p)) <= 1

\* One call with its Execs in flight on two targets at once, while the other
\* caller's earlier call has returned.
C9_Witness ==
    \E c, d \in Callers :
        /\ fpc[c] = "fanout"
        /\ fpc[d] = "returned"
        /\ Len(etask[c]) = 2
        /\ \A i \in 1..2 : etask[c][i].pc = "inflight"

\* C10: once the context is cancelled while a fault call's fan-out is in
\* progress, the call returns without the agents having to exit.
C10_CancelEndsFanout ==
    \A c \in Callers : (ctxCancelled /\ fpc[c] = "fanout") ~> (fpc[c] # "fanout")

\* The fault calls made with a descriptor that has an error rate and no code.
Codeless(c) ==
    \E f \in CodelessFaults, d \in Durations :
        \/ call[c].proto = "http" /\ call[c].cmd = buildHTTPFaultCmd(f, d, NoOptions)
        \/ call[c].proto = "grpc" /\ call[c].cmd = buildGrpcFaultCmd(f, d, NoOptions)

\* C11: a fault call whose descriptor has errorRate > 0 and no error code
\* returns the error FaultDescriptorInvalid and issues no Exec on any target.
C11_CodelessRejected ==
    \A c \in Callers : (fpc[c] # "idle" /\ Codeless(c)) =>
        /\ fpc[c] = "rejected"
        /\ fret[c].kind = "FaultDescriptorInvalid"
        /\ ~ExecIssued(c)

\* The place of a flag in the canonical order of the agent's command line.
Rank(flag) ==
    CASE flag = "-a" -> 1
      [] flag = "-v" -> 2
      [] flag \in {"-e", "-s"} -> 3
      [] flag = "-r" -> 4
      [] flag \in {"-b", "-m"} -> 5
      [] flag = "-t" -> 6
      [] flag = "-x" -> 7
      [] flag = "-p" -> 8
      [] flag = "-i" -> 9
      [] OTHER -> 0

\* The flag and the value of the k-th pair after "-d <duration>s".
FlagAt(argv, k) == argv[3 + 2 * k]
ValueAt(argv, k) == argv[4 + 2 * k]
\* The flag is in the argv, followed by the value.
HasPair(argv, flag, value) ==
    \E k \in 1..(Len(argv) - 1) : argv[k] = flag /\ argv[k + 1] = value
CodeFlag(proto) == IF proto = "http" THEN "-e" ELSE "-s"
BodyFlag(proto) == IF proto = "http" THEN "-b" ELSE "-m"

\* C12: the argv starts with the agent's name, the protocol, "-d" and
\* "<duration>s"; what follows is a list of flag-value pairs whose flags come
\* in the order -a, -v, (-e | -s), -r, (-b | -m), -t, -x, -p, -i, each at most
\* once, with no empty value; -s and -m belong to gRPC, -e and -b to HTTP.
C12_FixedLayout ==
    built.pc = "built" =>
        LET argv == built.argv
            n == (Len(argv) - 4) \div 2
        IN  /\ Len(argv) >= 4
            /\ SubSeq(argv, 1, 4) =
                  <<"xk6-disruptor-agent", built.proto, "-d", ToString(built.duration) \o "s">>
            /\ Len(argv) = 4 + 2 * n
            /\ \A k \in 1..n :
                  /\ Rank(FlagAt(argv, k)) > 0
                  /\ Rank(ValueAt(argv, k)) = 0
                  /\ ValueAt(argv, k) # ""
            /\ \A j, k \in 1..n : j < k => Rank(FlagAt(argv, j)) < Rank(FlagAt(argv, k))
            /\ built.proto = "http" => Range(argv) \cap {"-s", "-m"} = {}
            /\ built.proto = "grpc" => Range(argv) \cap {"-e", "-b"} = {}

\* A gRPC command with every clause present.
C12_Witness ==
    /\ built.pc = "built"
    /\ built.proto = "grpc"
    /\ Len(built.argv) = 22
    /\ built.argv[21] = "-i"

\* C13: the error block is in the argv exactly when errorRate > 0: the code
\* flag with the code, then -r with the rate, then the body flag with the
\* body when there is a body and no body flag otherwise; with errorRate = 0
\* none of -e, -s, -r, -b, -m is in the argv, whatever code or body is set.
C13_ErrorBlock ==
    built.pc = "built" =>
        LET argv == built.argv
            fault == built.fault
        IN  /\ fault.ErrorRate > 0 =>
                  \E k \in 5..(Len(argv) - 3) :
                      /\ argv[k] = CodeFlag(built.proto)
                      /\ argv[k + 1] = ToString(fault.ErrorCode)
                      /\ argv[k + 2] = "-r"
                      /\ argv[k + 3] = FormatRate(fault.ErrorRate)
                      /\ fault.ErrorBody # "" =>
                            /\ k + 5 <= Len(argv)
                            /\ argv[k + 4] = BodyFlag(built.proto)
                            /\ argv[k + 5] = fault.ErrorBody
                      /\ fault.ErrorBody = "" => BodyFlag(built.proto) \notin Range(argv)
            /\ fault.ErrorRate = 0 =>
                  Range(argv) \cap {"-e", "-s", "-r", "-b", "-m"} = {}

\* The smallest rate, with a message: the block is there; (the inputs with
\* rate 0 and a code and a message set are built too).
C13_Witness ==
    /\ built.pc = "built"
    /\ built.proto = "grpc"
    /\ built.fault.ErrorRate = 1
    /\ HasPair(built.argv, "-r", "1e-06")
    /\ HasPair(built.argv, "-m", "internal error")

\* The Exec requests issued so far, of every caller and target.
ExecRequests ==
    UNION {Range(etask[c][i].reqs) : <<c, i>> \in {x \in Callers \X (1..Cardinality(Pods)) :
                                                     x[2] <= Len(etask[x[1]])}}

C15_DelayBlock ==
    built.pc = "built" =>
        LET argv == built.argv
            fault == built.fault
        IN  /\ fault.AverageDelay > 0 =>
                  /\ Len(argv) >= 8
                  /\ SubSeq(argv, 5, 8) =
                        <<"-a", ToString(fault.AverageDelay),
                          "-v", IF fault.DelayVariation = 0 THEN "0"
                                ELSE ToString(fault.DelayVariation)>>
            /\ fault.AverageDelay = 0 => Range(argv) \cap {"-a", "-v"} = {}

\* A delay with no variation, and nothing else: -a 100 -v 0.
C15_Witness ==
    /\ built.pc = "built"
    /\ built.proto = "http"
    /\ built.argv = <<"xk6-disruptor-agent", "http", "-d", "60s", "-a", "100", "-v", "0">>

\* C16: -t <port> is in the argv iff fault.Port # 0, -x <exclude> iff the
\* exclude string is non-empty (the whole string as one element), -p
\* <proxyPort> iff options.ProxyPort # 0, -i <iface> iff options.Iface is
\* non-empty, whatever the other fields are; none of them is there twice.
C16_OptionalFlags ==
    built.pc = "built" =>
        LET argv == built.argv
            fault == built.fault
            options == built.options
        IN  /\ IF fault.Port # 0 THEN HasPair(argv, "-t", ToString(fault.Port))
                                  ELSE "-t" \notin Range(argv)
            /\ IF fault.Exclude # "" THEN HasPair(argv, "-x", fault.Exclude)
                                     ELSE "-x" \notin Range(argv)
            /\ IF options.ProxyPort # 0 THEN HasPair(argv, "-p", ToString(options.ProxyPort))
                                         ELSE "-p" \notin Range(argv)
            /\ IF options.Iface # "" THEN HasPair(argv, "-i", options.Iface)
                                     ELSE "-i" \notin Range(argv)
            /\ \A j, k \in 1..Len(argv) :
                  (j # k /\ argv[j] \in {"-t", "-x", "-p", "-i"}) => argv[j] # argv[k]

\* A two-element exclude list and an interface, with no port, no proxy
\* port, no delay and no error.
C16_Witness ==
    /\ built.pc = "built"
    /\ built.argv = <<"xk6-disruptor-agent", "grpc", "-d", "60s",
                      "-x", "/path1,/path2", "-i", "eth0">>

\* C17 as stated: with errorRate > 0 and the code unset the error block is
\* the rate flag alone: no -e or -s is in the argv.
C17_OnlyRateFlag ==
    (built.pc = "built" /\ built.fault.ErrorRate > 0 /\ built.fault.ErrorCode = 0) =>
        /\ HasPair(built.argv, "-r", FormatRate(built.fault.ErrorRate))
        /\ Range(built.argv) \cap {"-e", "-s"} = {}

\* C17 amended: with errorRate > 0 and the code unset the builders emit the
\* code flag with the value 0, followed by the rate flag and the rate.
C17_ZeroCodeEmitted ==
    (built.pc = "built" /\ built.fault.ErrorRate > 0 /\ built.fault.ErrorCode = 0) =>
        \E k \in 5..(Len(built.argv) - 3) :
            SubSeq(built.argv, k, k + 3) =
                <<CodeFlag(built.proto), "0", "-r", FormatRate(built.fault.ErrorRate)>>

\* An HTTP fault with a rate only.
C17_Witness ==
    /\ built.pc = "built"
    /\ built.fault = [NoFault EXCEPT !.ErrorRate = 100000]
    /\ built.options = NoOptions
    /\ built.argv = <<"xk6-disruptor-agent", "http", "-d", "60s", "-e", "0", "-r", "0.1">>

\* C18: a step of the program (construction, injection, fault calls, Targets)
\* leaves every pod's existence, regular containers and declared ports as
\* they are; the only change it makes to a pod is one more ephemeral
\* container named "xk6-agent", and every Exec it issues is in the container
\* of that name.
C18_RegularContainersUntouched ==
    [][ (nEnv' = nEnv) =>
          /\ \A p \in Pods :
                /\ pods'[p].exists = pods[p].exists
                /\ pods'[p].containers = pods[p].containers
                /\ \/ pods'[p].eph = pods[p].eph
                   \/ pods'[p].eph = Append(pods[p].eph, "xk6-agent")
          /\ \A r \in ExecRequests' : r.container = "xk6-agent"
      ]_vars

\* A pod of two regular containers, the only target, with the agent attached
\* beside its debugging container and a command executed in it.
C18_Witness ==
    /\ snapshot = <<"p2">>
    /\ pods["p2"].containers = PortsOther
    /\ pods["p2"].eph = <<"debugger", "xk6-agent">>
    /\ \E c \in Callers : etask[c] # <<>> /\ etask[c][1].reqs # <<>>

\* C19: when the selector resolves to no target, the constructor starts no
\* injection goroutine (so no fetch and no attach) and no error is sent;
\* InjectDisruptorAgent can return at once; the constructor returns the
\* handle with no error, and Targets() on it returns the empty list.
C19_EmptyTargetSet ==
    snapshot = <<>> =>
        /\ itask = <<>>
        /\ isent = <<>>
        /\ Targets(ctl) = <<>>
        /\ cpc = "injecting" => ENABLED ConstructReturn
        /\ cpc = "returned" => (disruptor /\ cret = Nil)
        /\ targetsResult # NoTargets => targetsResult = <<>>

\* A handle over no target whose Targets() has been called.
C19_Witness ==
    /\ snapshot = <<>>
    /\ cpc = "returned"
    /\ disruptor
    /\ targetsResult = <<>>

\* C20: a PodDisruptor constructor call with a null selector, and a
\* ServiceDisruptor constructor call with fewer than two arguments or with a
\* service or namespace that does not convert to a string, return an error;
\* a constructor call that returns such an error changes nothing of the
\* controller or the cluster (disruptors.NewPodDisruptor / NewServiceDisruptor
\* is not called); the calls PodDisruptor(selector) and
\* ServiceDisruptor(service, namespace), without options, are not rejected.
C20_ValidationBeforeCluster ==
    /\ [](api.pc # "none" =>
            /\ (api.ctor = "PodDisruptor" /\ Len(api.args) >= 1 /\ api.args[1] = "null")
                  => api.pc = "rejected"
            /\ (api.ctor = "ServiceDisruptor" /\ Len(api.args) < 2) => api.pc = "rejected"
            /\ (api.ctor = "ServiceDisruptor" /\ Len(api.args) >= 2
                   /\ "unconvertible" \in {api.args[1], api.args[2]}) => api.pc = "rejected"
            /\ (api.ctor = "PodDisruptor" /\ api.args = <<"object">>) => api.pc = "delegated"
            /\ (api.ctor = "ServiceDisruptor" /\ api.args = <<"string", "string">>)
                  => api.pc = "delegated")
    /\ [][(api' # api /\ api'.pc = "rejected") => UNCHANGED ctlVars]_vars
    /\ [][(api' # api /\ api'.pc = "delegated") => nConstruct' = nConstruct + 1]_vars

\* A constructor call with a null selector, rejected while the handle of an
\* earlier construction through the scripting layer stays as it was.
C20_Witness ==
    /\ api.pc = "rejected"
    /\ api.ctor = "PodDisruptor"
    /\ api.args = <<"null">>
    /\ nConstruct = 1
    /\ disruptor
    /\ Len(snapshot) = 2

\* C21: on a handle, the namespace of the controller is the selector's
\* namespace, defaulted when empty, hence non-empty; every Exec is issued in
\* that namespace, the fetches and attaches of injection are made in it, and
\* the fetches of port validation are made in it too.
C21_OneNamespace ==
    disruptor =>
        /\ ctl.namespace = DefaultNamespace(selector.Namespace)
        /\ ctl.namespace # ""
        /\ \A r \in ExecRequests : r.namespace = ctl.namespace
        /\ ValidationNamespace = ctl.namespace

\* The targets of the handle that declare no container port 80.
Lacking80 == {p \in Range(ctl.targets) : ~Declares(p, 80)}

\* C22 as stated: a fault call with no port set, HTTP or gRPC, carries no -t
\* in its argv, and passes validation exactly when every target declares
\* container port 80.
C22_PassesIffPort80 ==
    \A c \in Callers : (fpc[c] # "idle" /\ call[c].port = 0) =>
        /\ "-t" \notin Range(call[c].cmd)
        /\ fpc[c] # "rejected" <=> Lacking80 = {}

\* C22 amended: a fault call with no port set, HTTP or gRPC, carries no -t in
\* its argv and is validated against port 80: it is rejected when some target
\* declares no port 80; a port error names a target that declares no port 80;
\* and when every target declares port 80 it is rejected only by a failed
\* fetch, with the error of the fetch.
C22_DefaultPort80 ==
    \A c \in Callers : (fpc[c] # "idle" /\ call[c].port = 0) =>
        /\ "-t" \notin Range(call[c].cmd)
        /\ Lacking80 # {} => fpc[c] = "rejected"
        /\ (fpc[c] = "rejected" /\ fret[c].kind = "PortNotListening") =>
              fret[c].target \in Lacking80
        /\ (fpc[c] = "rejected" /\ Lacking80 = {}) => fret[c].kind \in FetchErrors

\* A gRPC call with no port set, rejected for the target that declares ports
\* 9090 and 8080 only.
C22_Witness ==
    \E c \in Callers :
        /\ call[c].proto = "grpc"
        /\ call[c].port = 0
        /\ fpc[c] = "rejected"
        /\ fret[c] = Err("PortNotListening", "p2")
        /\ pods["p2"].containers = PortsOther

\* A gRPC call with no port set that passed validation over two targets.
C22_WitnessPassed ==
    \E c \in Callers :
        /\ call[c].proto = "grpc"
        /\ call[c].port = 0
        /\ fpc[c] = "returned"
        /\ Len(etask[c]) = 2

\* The goroutines of a fan-out that have not called wg.Done() yet.
Pending(tasks) == {i \in 1..Len(tasks) : tasks[i].pc # "done"}
Finished(tasks) == {i \in 1..Len(tasks) : tasks[i].pc = "done"}
Targetwise(sent) == \A j, k \in 1..Len(sent) : j # k => sent[j].target # sent[k].target

\* C23: in both fan-outs the errors channel holds at most as many errors as
\* there are targets, and at most one per finished goroutine, so a goroutine
\* that has yet to finish can always send; when every goroutine has finished
\* the coordinator can return; it takes at most one error off the channel, and
\* none before every goroutine has finished.
C23_ErrorsChannelBounded ==
    /\ snapshot # NoTargets =>
          /\ Len(ierrors) <= Len(ctl.targets)
          /\ Len(isent) <= Cardinality(Finished(itask))
          /\ Targetwise(isent)
          /\ Pending(itask) # {} => (CanSend(ierrors, Len(ctl.targets)) /\ ierrors = isent)
          /\ (cpc = "injecting" /\ Pending(itask) = {}) => ENABLED ConstructReturn
          /\ cpc = "injecting" => ierrors = isent
          /\ cpc = "returned" =>
                ierrors = (IF isent = <<>> THEN <<>> ELSE Tail(isent))
    /\ \A c \in Callers :
          /\ Len(eerrors[c]) <= Len(ctl.targets)
          /\ Len(esent[c]) <= Cardinality(Finished(etask[c]))
          /\ Targetwise(esent[c])
          /\ Pending(etask[c]) # {} =>
                (CanSend(eerrors[c], Len(ctl.targets)) /\ eerrors[c] = esent[c])
          /\ (fpc[c] = "fanout" /\ Pending(etask[c]) = {}) => ENABLED FaultReturn(c)
          /\ fpc[c] = "fanout" => eerrors[c] = esent[c]
          /\ fpc[c] = "returned" =>
                eerrors[c] = (IF esent[c] = <<>> THEN <<>> ELSE Tail(esent[c]))

\* Every goroutine of an injection over two targets has sent an error, and
\* the coordinator has taken the first of the two.
C23_Witness ==
    /\ cpc = "returned"
    /\ Len(isent) = 2
    /\ Len(ierrors) = 1
    /\ ierrors[1] = isent[2]

\* C25: on a handle with no target a fault call is not rejected, spawns no
\* goroutine and so issues no Exec, sends no error, can return at once and
\* returns no error.
C25_EmptySnapshotCall ==
    \A c \in Callers : (fpc[c] # "idle" /\ snapshot = <<>>) =>
        /\ fpc[c] \in {"fanout", "returned"}
        /\ etask[c] = <<>>
        /\ ~ExecIssued(c)
        /\ esent[c] = <<>>
        /\ fret[c] = Nil
        /\ fpc[c] = "fanout" => ENABLED FaultReturn(c)

\* A gRPC fault call returned on a handle with no target, built from a
\* selector with no namespace.
C25_Witness ==
    \E c \in Callers :
        /\ snapshot = <<>>
        /\ selector.Namespace = ""
        /\ call[c].proto = "grpc"
        /\ fpc[c] = "returned"

\* The injection goroutines that called AttachEphemeralContainer on pod p.
AttachCalls(p) ==
    {i \in 1..Len(itask) : ctl.targets[i] = p /\ itask[i].attach # "none"}

\* C24 as stated: at most one AttachEphemeralContainer call is issued for an
\* instance, also when two injection goroutines work on it at the same time.
C24_OneAttachPerInstance ==
    \A p \in Pods : Cardinality(AttachCalls(p)) <= 1

\* C24 amended: every goroutine attaches at most once and only after its own
\* fetch showed no agent; two goroutines at work on one instance may both
\* attach, and the instance then carries one agent container, not two.
C24_OneAgentPerInstance ==
    /\ \A p \in Pods :
          /\ AgentCount(p) <= 1
          /\ Cardinality(AttachCalls(p)) <=
                Cardinality({i \in 1..Len(itask) : ctl.targets[i] = p})
    /\ \A i \in 1..Len(itask) :
          /\ itask[i].attach # "none" =>
                (FetchedOk(itask[i]) /\ AgentName \notin Range(itask[i].fetched))
          /\ (itask[i].attach \in {"ok", "timeout"} /\ nEnv = 0) =>
                AgentCount(ctl.targets[i]) = 1

\* Both goroutines of a construction over <<p, p>> attached the agent.
C24_Witness ==
    /\ Len(itask) = 2
    /\ ctl.targets[1] = ctl.targets[2]
    /\ itask[1].attach = "ok"
    /\ itask[2].attach = "ok"
    /\ AgentCount(ctl.targets[1]) = 1
    /\ cpc = "returned"
    /\ disruptor

\* ------------------------------------------------------------------ C26
\* C26: streamHandler never returns the error of the statement after its
\* loop: every served call returns from inside the loop.
C26_NeverFallsThrough ==
    /\ hret.kind # "Unreachable"
    /\ hiter <= 1
    /\ hiter = 1 => (s2cSends = 1 /\ s2cErrChan = <<>>)

\* Both goroutines have reported and the handler returned from the loop.
C26_Witness ==
    /\ hpc = "returned"
    /\ hret.kind \in {"nil", "Backend"}
    /\ hiter = 1
    /\ s2cSends = 1
    /\ c2sSends = 1

\* ------------------------------------------------------------------ C27
\* C27 as stated: whenever the backend stream has ended by the time the
\* handler returns, the handler has set the trailers and returned nil for an
\* EOF and the backend's error otherwise.
C27_BackendEndSetsTrailers ==
    (hpc = "returned" /\ hret.ended # "none") =>
        /\ trailers = 1
        /\ hret.kind = (IF hret.ended = "EOF" THEN "nil" ELSE "Backend")
        /\ hret.kind = "Backend" => hret.err = hret.ended

\* C27: when the handler takes the caller side's EOF it half-closes the
\* backend stream, exactly once, stays in its loop and leaves the relaying
\* goroutine running; when it takes the backend side's value it sets the
\* trailers and returns nil for an EOF and the value unchanged otherwise,
\* and that is the only way it returns after the half-close.
C27_BackendValueTaken ==
    /\ closeSends = hiter
    /\ closeSends <= 1
    /\ (hpc = "returned" /\ hiter = 1) => hret.kind \in {"nil", "Backend"}
    /\ trailers = (IF hret.kind \in {"nil", "Backend"} THEN 1 ELSE 0)
    /\ hret.kind = "nil" => hret.ended = "EOF"
    /\ hret.kind = "Backend" =>
          /\ hret.err # "EOF"
          /\ hret.ended # "none" => hret.err = hret.ended
    /\ (hpc = "select" /\ hiter = 1 /\ c2s.pc # "done") =>
          ENABLED (C2SRecv \/ C2SHeader \/ C2SSendHeader \/ C2SSend)

\* The caller ended first, the backend then failed after one relayed message.
C27_Witness ==
    /\ hpc = "returned"
    /\ closeSends = 1
    /\ hret.kind = "Backend"
    /\ hret.ended = "RPCErr"
    /\ toCaller = <<0, 1>>

\* ------------------------------------------------------------------ C28
\* A non-EOF error of the caller-to-backend direction is the only value the
\* handler can take.
IncomingFailureObserved ==
    /\ hpc = "select"
    /\ s2cErrChan # <<>>
    /\ Head(s2cErrChan) # "EOF"
    /\ c2sErrChan = <<>>

\* C28: a non-EOF error of the caller-to-backend direction observed before
\* the backend-to-caller direction has finished makes the handler cancel the
\* backend context and return an Internal error without setting trailers;
\* and whenever the handler has returned, the backend context is cancelled.
C28_IncomingFailure ==
    /\ [](hret.kind = "ForwardInternal" =>
            /\ clientCancelled
            /\ trailers = 0
            /\ hret.err \in {"RecvErr", "SendErr"})
    /\ [](hpc = "returned" => clientCancelled)
    /\ [][(IncomingFailureObserved /\ hpc' # hpc) =>
            /\ hret'.kind = "ForwardInternal"
            /\ hret'.err = Head(s2cErrChan)
            /\ clientCancelled'
            /\ trailers' = 0]_vars

\* The caller's receive failed while the backend was still relaying.
C28_Witness ==
    /\ hpc = "returned"
    /\ hret.kind = "ForwardInternal"
    /\ hret.err = "RecvErr"
    /\ hret.ended = "none"
    /\ toCaller = <<0, 1>>

\* The handler returned the backend's value, not having cancelled before.
C28_WitnessDeferred ==
    /\ hpc = "returned"
    /\ hret.kind = "nil"
    /\ clientCancelled

\* ------------------------------------------------------------------ C29
\* The error of the backend-to-caller goroutine, once it has one.
C2SError ==
    IF c2sErrChan # <<>> THEN Head(c2sErrChan)
    ELSE IF hret.kind \in {"nil", "Backend"} /\ c2sSends = 1
         THEN (IF hret.kind = "nil" THEN "EOF" ELSE hret.err)
    ELSE "-"

\* C29: towards the caller the headers go out at most once, after the first
\* backend message was received and before any message; nothing is forwarded
\* once reading or sending the headers failed; the messages go out in the
\* order received, none lost and none twice, up to the first error.
C29_HeadersFirst ==
    /\ \A k \in 1..Len(toCaller) : toCaller[k] = k - 1
    /\ toCaller # <<>> => fromBackend >= 1
    /\ Len(toCaller) <= fromBackend + 1
    /\ c2s.pc \in {"recv", "done"} /\ C2SError \notin {"HeaderErr", "SendHeaderErr", "SendErr"}
         => Len(toCaller) = (IF fromBackend = 0 THEN 0 ELSE fromBackend + 1)
    /\ C2SError \in {"HeaderErr", "SendHeaderErr"} =>
         (toCaller = <<>> /\ fromBackend = 1)
    /\ C2SError = "SendErr" => Len(toCaller) = fromBackend

\* Both backend messages reached the caller behind the headers.
C29_Witness ==
    /\ toCaller = <<0, 1, 2>>
    /\ c2s.pc = "done"
    /\ C2SError = "EOF"

\* Sending the headers failed and nothing was forwarded.
C29_WitnessHeaderFailed ==
    /\ C2SError = "SendHeaderErr"
    /\ c2s.pc = "done"

\* ------------------------------------------------------------------ C30
\* Both forwarding goroutines have left their loops (or were never started).
GoroutinesOver == s2c.pc \in {"none", "done"} /\ c2s.pc \in {"none", "done"}

\* C30: each forwarding goroutine sends exactly one value on its own channel
\* and is then over, the channel has room for that value whether or not the
\* handler still reads it, and once the handler has returned both goroutines
\* are eventually over.
C30_NoGoroutineLeak ==
    /\ [](/\ s2cSends = (IF s2c.pc = "done" THEN 1 ELSE 0)
          /\ c2sSends = (IF c2s.pc = "done" THEN 1 ELSE 0)
          /\ Len(s2cErrChan) <= s2cSends
          /\ Len(c2sErrChan) <= c2sSends
          /\ s2c.pc \in {"recv", "send"} => s2cErrChan = <<>>
          /\ c2s.pc \in {"recv", "header", "sendheader", "send"} =>
                c2sErrChan = <<>>)
    /\ (hpc = "returned" ~> GoroutinesOver)

\* The handler returned on the caller side's error; the backend-to-caller
\* goroutine then left its value in the channel nobody reads.
C30_Witness ==
    /\ hpc = "returned"
    /\ hret.kind = "ForwardInternal"
    /\ GoroutinesOver
    /\ c2sErrChan = <<"Canceled">>

====
